---------------------------- MODULE Spec2Model ----------------------------
(***************************************************************************)
(* Model of the acquisition, parsing and checkpoint logic of               *)
(* 321lx_data_logger_ver2.py (class BalanceLogger).                        *)
(*                                                                         *)
(* Text is modelled as a sequence of one-character strings.  A weight, a   *)
(* Python float read from a decimal literal, is modelled by its exact      *)
(* decimal value [m, e] = m / 10^e with trailing zeros removed, so that     *)
(* 5.000 and 5.0 are the same value, as they are for float().              *)
(***************************************************************************)
EXTENDS Integers, Sequences, FiniteSets, TLC

(***************************************************************************)
(* Characters                                                              *)
(***************************************************************************)
CR == "\r"
LF == "\n"
\* U+FFFD, what decode('ascii', errors='replace') produces for a byte >= 0x80
REPL == "<U+FFFD>"
\* a byte >= 0x80 on the wire
HIGHBYTE == "<0x80>"

\* code points of the characters the model uses
CodePoints ==
  << <<"\t", 9>>, <<LF, 10>>, <<CR, 13>>, <<" ", 32>>, <<"+", 43>>, <<",", 44>>,
     <<"-", 45>>, <<".", 46>>, <<"0", 48>>, <<"1", 49>>, <<"2", 50>>, <<"3", 51>>,
     <<"4", 52>>, <<"5", 53>>, <<"6", 54>>, <<"7", 55>>, <<"8", 56>>, <<"9", 57>>,
     <<"E", 69>>, <<"G", 71>>, <<"K", 75>>, <<"O", 79>>, <<"R", 82>>, <<"S", 83>>,
     <<"T", 84>>, <<"g", 103>>, <<"k", 107>>, <<REPL, 65533>> >>

Ord(c) ==
  LET hits == {i \in 1..Len(CodePoints) : CodePoints[i][1] = c}
  IN  IF hits = {} THEN 0 ELSE CodePoints[CHOOSE i \in hits : TRUE][2]

\* regex \d on text that is ASCII or U+FFFD
IsDigit(c) == Ord(c) >= 48 /\ Ord(c) <= 57

DigitVal(c) == Ord(c) - 48

\* str.lower() on one character
LowerChar(c) ==
  IF Ord(c) >= 65 /\ Ord(c) <= 90
    THEN LET hits == {i \in 1..Len(CodePoints) : CodePoints[i][2] = Ord(c) + 32}
         IN  IF hits = {} THEN c ELSE CodePoints[CHOOSE i \in hits : TRUE][1]
    ELSE c

Lower(s) == [i \in 1..Len(s) |-> LowerChar(s[i])]

\* str.isspace() for the characters of the model
IsSpace(c) == c \in {" ", "\t", CR, LF}

\* needle in hay (Python's 'in' on strings)
Contains(hay, needle) ==
  \E i \in 1..(Len(hay) - Len(needle) + 1) :
     SubSeq(hay, i, i + Len(needle) - 1) = needle

(***************************************************************************)
(* process_data: sanitization, the decimal search, float() and the unit    *)
(***************************************************************************)
\* c is a digit, '+', '-', '.', 'g' or 'k'
KeptNoRange(c) == IsDigit(c) \/ c \in {"+", "-", ".", "g", "k"}

\* the character class [^\d\+-\.gk] removes c unless c is a digit, lies in the
\* range '+' .. '.', or is 'g' or 'k'
Kept(c) ==
  \/ IsDigit(c)
  \/ (Ord(c) >= Ord("+") /\ Ord(c) <= Ord("."))
  \/ c \in {"g", "k"}

\* re.sub(r'[^\d\+-\.gk]', '', data)
Sanitize(data) == SelectSeq(data, Kept)

\* the number of consecutive digits of s starting at index i
RECURSIVE DigitRun(_, _)
DigitRun(s, i) ==
  IF i <= Len(s) /\ IsDigit(s[i]) THEN 1 + DigitRun(s, i + 1) ELSE 0

\* a mutant of MatchAt: the pattern without its optional sign
MatchAtUnsigned(s, i) ==
  LET d1 == DigitRun(s, i)
      p  == i + d1
      d2 == IF p <= Len(s) /\ s[p] = "." THEN DigitRun(s, p + 1) ELSE 0
  IN  IF d1 >= 1 /\ d2 >= 1 THEN p + d2 ELSE 0

\* [+-]?\d+\.\d+ tried at index i: the index of the last character matched, or 0.
\* The quantifiers are greedy, and no shorter choice can succeed where the
\* greedy one fails.
MatchAt(s, i) ==
  LET j  == IF i <= Len(s) /\ s[i] \in {"+", "-"} THEN i + 1 ELSE i
      d1 == DigitRun(s, j)
      p  == j + d1
      d2 == IF p <= Len(s) /\ s[p] = "." THEN DigitRun(s, p + 1) ELSE 0
  IN  IF d1 >= 1 /\ d2 >= 1 THEN p + d2 ELSE 0

\* re.search: the leftmost index where the pattern matches; <<0, 0>> for None
RegexSearch(s) ==
  LET starts == {i \in 1..Len(s) : MatchAt(s, i) # 0}
  IN  IF starts = {} THEN <<0, 0>>
      ELSE LET i == CHOOSE a \in starts : \A b \in starts : a <= b
           IN  <<i, MatchAt(s, i)>>

\* the integer written by a sequence of digits
RECURSIVE DigitsValue(_)
DigitsValue(ds) ==
  IF ds = <<>> THEN 0
  ELSE 10 * DigitsValue(SubSeq(ds, 1, Len(ds) - 1)) + DigitVal(ds[Len(ds)])

\* m / 10^e with the trailing zeros of the fraction removed
RECURSIVE Canon(_, _)
Canon(m, e) ==
  IF e > 0 /\ m % 10 = 0 THEN Canon(m \div 10, e - 1) ELSE [m |-> m, e |-> e]

\* float(text) for text matching [+-]?\d+\.\d+
ToFloat(text) ==
  LET neg   == text[1] = "-"
      body  == IF text[1] \in {"+", "-"} THEN Tail(text) ELSE text
      dot   == CHOOSE i \in 1..Len(body) : body[i] = "."
      ip    == SubSeq(body, 1, dot - 1)
      fp    == SubSeq(body, dot + 1, Len(body))
      c     == Canon(DigitsValue(ip \o fp), Len(fp))
  IN  [m |-> IF neg THEN 0 - c.m ELSE c.m, e |-> c.e]

\* a mutant of UnitOf: the longer token tested first
UnitOfKgFirst(clean) ==
  IF Contains(Lower(clean), <<"k", "g">>) THEN "kg"
  ELSE IF Contains(Lower(clean), <<"g">>) THEN "g"
  ELSE "?"

\* 'g' if 'g' in clean_data.lower() else 'kg' if 'kg' in clean_data.lower() else '?'
UnitOf(clean) ==
  IF Contains(Lower(clean), <<"g">>) THEN "g"
  ELSE IF Contains(Lower(clean), <<"k", "g">>) THEN "kg"
  ELSE "?"

\* what process_data returns early on: no measurement
NoReading == [ok |-> FALSE, weight |-> [m |-> 0, e |-> 0], unit |-> "?"]

\* lines 397-404 of process_data: the reading a line carries, if any
Extract(data) ==
  LET clean == Sanitize(data)
  IN  IF clean = <<>> THEN NoReading
      ELSE LET mt == RegexSearch(clean)
           IN  IF mt[1] = 0 THEN NoReading
               ELSE [ok     |-> TRUE,
                     weight |-> ToFloat(SubSeq(clean, mt[1], mt[2])),
                     unit   |-> UnitOf(clean)]


(***************************************************************************)
(* The application: BalanceLogger's state, the foreground handlers and the *)
(* reader threads                                                          *)
(***************************************************************************)
\* the reader threads the model can run at once
Threads == {1, 2}

\* Spec starts a reader only when none is running
OneReader == {1}

\* the reading lines the device sends over a whole behaviour (all processes):
\* under Spec, and under SpecTwo
MaxReadings == 2
MaxReadingsTwo == 1

\* the edits the operator makes over a whole behaviour
MaxEdits == 1

\* the lines a device sends in the session model
ReadingLine == <<"+", "5", ".", "0", " ", "g">>
NoReadingLine == <<"E", "R", "R", "O", "R">>

\* what one read can complete: no line yet, or one line
Chunks == {<<>>, <<ReadingLine>>, <<NoReadingLine>>}

\* the one preset of load_presets' default file
PresetName == "Precisa 321 LX"

\* what an operator types into the edit box
EditText == "x"

VARIABLES
  connection_type,  \* self.connection_type: "Serial" or "Ethernet"
  serial_port,      \* self.serial_port: "None", or the state of the port object
  tcp_socket,       \* self.tcp_socket: "None", or the state of the socket object
  status,           \* the fill colour of status_indicator, set with the status text
  data,             \* self.data, the ledger
  sample_counter,   \* self.sample_counter
  device_name,      \* self.device_name
  presets_combo,    \* the selection of presets_combo
  tree,             \* the rows of self.tree, in display order
  tree_serial,      \* the Treeview's item serial, from which it generates iids
  file,             \* TEMP_FILE on disk
  export_file,      \* the rows of the CSV file that file_path names
  thr,              \* the reader threads: position and locals
  received,         \* history: how many reading lines were delivered so far
  edits,            \* history: how many edits the operator has made so far
  base,             \* history: how many ledger entries came from a restore
  saveFailed,       \* history: a save_temp_data of this process reported a failure
  xline,            \* SpecExtract: the line handed to process_data
  xdone,            \* SpecExtract: process_data has handled xline
  xres,             \* SpecExtract: the reading process_data found in xline
  cstream,          \* SpecChunk: the bytes the device sends
  cpos,             \* SpecChunk: how many of them the read loop has received
  cbuf,             \* SpecChunk: the read loop's buffer
  clines,           \* SpecChunk: the lines handed to process_data so far
  clast             \* SpecChunk: the stream position before the latest read

vars == <<connection_type, serial_port, tcp_socket, status, data, sample_counter,
          device_name, presets_combo, tree, tree_serial, file, export_file, thr,
          received, edits, base, saveFailed, xline, xdone, xres, cstream, cpos, cbuf, clines,
          clast>>

\* the variables of the application
app == <<connection_type, serial_port, tcp_socket, status, data, sample_counter,
         device_name, presets_combo, tree, tree_serial, file, export_file, thr,
         received, edits, base, saveFailed>>

\* the variables of the specifications of the pure parts
pure == <<xline, xdone, xres, cstream, cpos, cbuf, clines, clast>>

\* f"Sample_{n}"
SampleName(n) == [text |-> "Sample_", n |-> n]

\* a name or comment typed by the operator
Typed(s) == [text |-> s, n |-> 0]

\* update_status(text, color): "Not Connected" is shown grey, "Connected" and
\* "Connected (Ethernet)" green, "Error: ...", "Connection Lost" and "TCP Error: ..."
\* red
NotConnected == "grey"
Connected == "green"
ErrorShown == "red"

\* the character of the digit d
DigitChar(d) ==
  CHOOSE c \in {"0", "1", "2", "3", "4", "5", "6", "7", "8", "9"} : DigitVal(c) = d

\* the decimal digits of the natural number n
RECURSIVE NatDigits(_)
NatDigits(n) ==
  IF n < 10 THEN <<DigitChar(n)>> ELSE Append(NatDigits(n \div 10), DigitChar(n % 10))

\* ds with zeros in front up to the length n
RECURSIVE PadZeros(_, _)
PadZeros(ds, n) == IF Len(ds) >= n THEN ds ELSE PadZeros(<<"0">> \o ds, n)

\* json.dump of a float: float.__repr__, the shortest decimal that reads back, with
\* at least one digit on each side of the point (the form used for magnitudes
\* from 1e-4 up to 1e16, which the weights of the model stay within)
FloatRepr(w) ==
  LET a  == IF w.m < 0 THEN 0 - w.m ELSE w.m
      ds == PadZeros(NatDigits(a), w.e + 1)
      ip == SubSeq(ds, 1, Len(ds) - w.e)
      fp == IF w.e = 0 THEN <<"0">> ELSE SubSeq(ds, Len(ds) - w.e + 1, Len(ds))
  IN  (IF w.m < 0 THEN <<"-">> ELSE <<>>) \o ip \o <<".">> \o fp

\* the "data" array json.dump writes: every weight as its repr
EncodedData(d) == [i \in 1..Len(d) |-> [d[i] EXCEPT !.weight = FloatRepr(@)]]

\* the "data" array json.load returns: every weight read back by float()
LoadedData(fd) == [i \in 1..Len(fd) |-> [fd[i] EXCEPT !.weight = ToFloat(@)]]

NoFile == [st |-> "absent", data |-> <<>>, sample_counter |-> 0, device_name |-> ""]

\* open(TEMP_FILE, "w") has truncated the file and nothing was written yet
TruncatedFile == [st |-> "partial", data |-> <<>>, sample_counter |-> 0, device_name |-> ""]

\* a mutant of Snapshot: the checkpoint without the newest measurement
SnapshotStale ==
  [st |-> "ok",
   data |-> EncodedData(IF data = <<>> THEN data ELSE SubSeq(data, 1, Len(data) - 1)),
   sample_counter |-> sample_counter, device_name |-> device_name]

\* json.dump({"data": ..., "sample_counter": ..., "device_name": ...}, f)
Snapshot ==
  [st |-> "ok", data |-> EncodedData(data), sample_counter |-> sample_counter,
   device_name |-> device_name]

\* a thread that is not running: never started, or its loop has ended
Idle ==
  [pc |-> "idle", kind |-> "none", pending |-> <<>>, sname |-> 0,
   rd |-> NoReading, iid |-> 0, uid |-> 0, device |-> ""]

\* threading.Thread(target=self.read_serial / self.read_tcp).start()
Started(kind) == [Idle EXCEPT !.pc = "check", !.kind = kind]

Running == {t \in Threads : thr[t].pc # "idle"}

\* the transport handle a handler or a read loop looks at
Handle(kind) == IF kind = "Serial" THEN serial_port ELSE tcp_socket

\* the foreground is between the statements of a disconnect
Closing == serial_port = "closed" \/ tcp_socket = "closed"

\* the reading lines among the lines ch
ReadingsIn(ch) == Cardinality({i \in 1..Len(ch) : Extract(ch[i]).ok})

\* the state __init__ leaves when there is no checkpoint file
InitApp ==
  /\ connection_type = "Serial"
  /\ serial_port = "None"
  /\ tcp_socket = "None"
  /\ status = NotConnected
  /\ data = <<>>
  /\ sample_counter = 1
  /\ device_name = ""
  /\ presets_combo = ""
  /\ tree = <<>>
  /\ tree_serial = 0
  /\ file = NoFile
  /\ export_file = <<>>
  /\ thr = [t \in Threads |-> Idle]
  /\ received = 0
  /\ edits = 0
  /\ base = 0
  /\ saveFailed = FALSE

\* the pure parts at rest
InitPure ==
  /\ xline = <<>>
  /\ xdone = FALSE
  /\ xres = NoReading
  /\ cstream = <<>>
  /\ cpos = 0
  /\ cbuf = <<>>
  /\ clines = <<>>
  /\ clast = 0

Init == InitApp /\ InitPure

(***************************************************************************)
(* Foreground handlers (the Tk main thread).  A handler runs only when the *)
(* previous one has returned, so none starts between the two statements of *)
(* a disconnect.                                                           *)
(***************************************************************************)
\* the Serial / Ethernet radio buttons
ToggleConnType ==
  /\ ~Closing
  /\ connection_type' = IF connection_type = "Serial" THEN "Ethernet" ELSE "Serial"
  /\ UNCHANGED <<pure, export_file, serial_port, tcp_socket, status, data, sample_counter, device_name,
                 presets_combo, tree, tree_serial, file, thr, received, edits, base, saveFailed>>

\* a mutant of ConnectOpened: the connect leaves the reader thread unstarted
ConnectOpenedNoThread(T) ==
  /\ ~Closing
  /\ Handle(connection_type) = "None"
  /\ IF connection_type = "Serial"
       THEN serial_port' = "open" /\ status' = Connected /\ UNCHANGED tcp_socket
       ELSE tcp_socket' = "open" /\ status' = Connected /\ UNCHANGED serial_port
  /\ UNCHANGED <<pure, export_file, connection_type, data, sample_counter, device_name, presets_combo,
                 tree, tree_serial, file, thr, received, edits, base, saveFailed>>

\* toggle_connection with no handle held, the open succeeding: the handle is kept,
\* the status set and a reader thread started
ConnectOpened(T) ==
  /\ ~Closing
  /\ Handle(connection_type) = "None"
  /\ T \ Running # {}
  /\ LET t == CHOOSE x \in T \ Running : \A y \in T \ Running : x <= y
     IN  IF connection_type = "Serial"
           THEN /\ serial_port' = "open"
                /\ status' = Connected
                /\ thr' = [thr EXCEPT ![t] = Started("Serial")]
                /\ UNCHANGED tcp_socket
           ELSE /\ tcp_socket' = "open"
                /\ status' = Connected
                /\ thr' = [thr EXCEPT ![t] = Started("Ethernet")]
                /\ UNCHANGED serial_port
  /\ UNCHANGED <<pure, export_file, connection_type, data, sample_counter, device_name, presets_combo,
                 tree, tree_serial, file, received, edits, base, saveFailed>>

\* a mutant of ConnectFailed: the socket created before the failed connect is kept
ConnectFailedKeepsSocket ==
  /\ ~Closing
  /\ Handle(connection_type) = "None"
  /\ status' = ErrorShown
  /\ tcp_socket' = IF connection_type = "Ethernet" THEN "open" ELSE tcp_socket
  /\ UNCHANGED <<pure, export_file, connection_type, serial_port, data, sample_counter,
                 device_name, presets_combo, tree, tree_serial, file, thr, received,
                 edits, base, saveFailed>>

\* toggle_connection with no handle held, the open raising: the error is shown and
\* no handle is kept (serial_port was never assigned, tcp_socket is set to None)
ConnectFailed ==
  /\ ~Closing
  /\ Handle(connection_type) = "None"
  /\ status' = ErrorShown
  /\ UNCHANGED <<pure, export_file, connection_type, serial_port, tcp_socket, data, sample_counter,
                 device_name, presets_combo, tree, tree_serial, file, thr, received,
                 edits, base, saveFailed>>

\* toggle_connection with a handle held, first statement: handle.close()
DisconnectClose ==
  /\ ~Closing
  /\ Handle(connection_type) # "None"
  /\ IF connection_type = "Serial"
       THEN serial_port' = "closed" /\ UNCHANGED tcp_socket
       ELSE tcp_socket' = "closed" /\ UNCHANGED serial_port
  /\ UNCHANGED <<pure, export_file, connection_type, status, data, sample_counter, device_name,
                 presets_combo, tree, tree_serial, file, thr, received, edits, base, saveFailed>>

\* toggle_connection with a handle held, the rest: the handle is set to None and the
\* status to "Not Connected"
DisconnectFinish ==
  /\ Handle(connection_type) = "closed"
  /\ IF connection_type = "Serial"
       THEN serial_port' = "None" /\ UNCHANGED tcp_socket
       ELSE tcp_socket' = "None" /\ UNCHANGED serial_port
  /\ status' = NotConnected
  /\ UNCHANGED <<pure, export_file, connection_type, data, sample_counter, device_name, presets_combo,
                 tree, tree_serial, file, thr, received, edits, base, saveFailed>>

\* reset_data, the operator answering yes
ResetData ==
  /\ ~Closing
  /\ data' = <<>>
  /\ sample_counter' = 1
  /\ device_name' = ""
  /\ tree' = <<>>
  /\ file' = NoFile
  /\ base' = 0
  /\ UNCHANGED <<pure, export_file, connection_type, serial_port, tcp_socket, status, presets_combo,
                 tree_serial, thr, received, edits, saveFailed>>

\* reset_data, the operator answering no
ResetDeclined ==
  /\ ~Closing
  /\ UNCHANGED vars

\* a mutant of EditedData: the entry edited is dropped from the ledger
EditedDataDrops(rowid, col, value) ==
  SelectSeq(data, LAMBDA row : row.iid # rowid)

\* the loop of save_edit: the first ledger entry whose iid is rowid gets the value
EditedData(rowid, col, value) ==
  LET hits == {i \in 1..Len(data) : data[i].iid = rowid}
  IN  IF hits = {} THEN data
      ELSE LET i == CHOOSE a \in hits : \A b \in hits : a <= b
           IN  IF col = 0
                 THEN [data EXCEPT ![i].sample_name = value]
                 ELSE [data EXCEPT ![i].comments = value]

\* save_edit on the row at position r of the table, column 0 (name) or 4 (comments),
\* followed by its save_temp_data, which may fail
SaveEdit(r, col, saved) ==
  /\ ~Closing
  /\ r \in 1..Len(tree)
  /\ edits < MaxEdits
  /\ edits' = edits + 1
  /\ data' = EditedData(tree[r].iid, col, Typed(EditText))
  /\ IF saved
       THEN /\ file' = [st |-> "ok", data |-> EncodedData(data'), sample_counter |-> sample_counter,
                        device_name |-> device_name]
            /\ UNCHANGED saveFailed
       ELSE saveFailed' = TRUE /\ UNCHANGED file
  /\ UNCHANGED <<pure, export_file, connection_type, serial_port, tcp_socket, status, sample_counter,
                 device_name, presets_combo, tree, tree_serial, thr, received, base>>

\* apply_preset: a preset is chosen in presets_combo
ApplyPreset ==
  /\ ~Closing
  /\ presets_combo' = PresetName
  /\ device_name' = PresetName
  /\ UNCHANGED <<pure, export_file, connection_type, serial_port, tcp_socket, status, data, sample_counter,
                 tree, tree_serial, file, thr, received, edits, base, saveFailed>>

\* apply_preset on a preset of the presets file that lacks a key: the selection is
\* made, the KeyError is shown and device_name.set is not reached
ApplyPresetIncomplete ==
  /\ ~Closing
  /\ presets_combo' = PresetName
  /\ UNCHANGED <<pure, export_file, connection_type, serial_port, tcp_socket, status, data,
                 sample_counter, device_name, tree, tree_serial, file, thr, received, edits,
                 base, saveFailed>>

\* delete_preset: the selected preset is deleted and the selection cleared
DeletePreset ==
  /\ ~Closing
  /\ presets_combo # ""
  /\ presets_combo' = ""
  /\ UNCHANGED <<pure, export_file, connection_type, serial_port, tcp_socket, status, data, sample_counter,
                 device_name, tree, tree_serial, file, thr, received, edits, base, saveFailed>>

\* how many exports a behaviour holds at most
MaxExports == 1

\* f"{weight:.3f}": the weight with exactly three decimals (weights of at most three
\* decimals, which need no rounding)
Fixed3(w) ==
  LET a  == IF w.m < 0 THEN 0 - w.m ELSE w.m
      k  == IF w.e = 0 THEN 1000 ELSE IF w.e = 1 THEN 100 ELSE IF w.e = 2 THEN 10 ELSE 1
      ds == PadZeros(NatDigits(a * k), 4)
  IN  (IF w.m < 0 THEN <<"-">> ELSE <<>>)
        \o SubSeq(ds, 1, Len(ds) - 3) \o <<".">> \o SubSeq(ds, Len(ds) - 2, Len(ds))

\* the rows save_data writes before the measurements: the export time, the column names
StampRow ==
  [kind |-> "stamp", sample_name |-> Typed("Exported:"), weight |-> <<>>, unit |-> "",
   device |-> "", comments |-> Typed("")]

HeaderRow ==
  [kind |-> "header", sample_name |-> Typed("Sample Name"), weight |-> <<"W", "e", "i", "g", "h", "t">>,
   unit |-> "Units", device |-> "Device", comments |-> Typed("Comments")]

\* writer.writerow([row["sample_name"], row["weight"], row["unit"], row.get("device", ""),
\* row["comments"]]): csv.writer writes a float as its repr
ExportRow(row) ==
  [kind |-> "row", sample_name |-> row.sample_name, weight |-> FloatRepr(row.weight),
   unit |-> row.unit, device |-> row.device, comments |-> row.comments]

\* the exports the CSV file holds
Exports == Cardinality({i \in 1..Len(export_file) : export_file[i].kind = "stamp"})

\* save_data: with an empty ledger only a message is shown; otherwise the stamp, the
\* column names and one row per ledger entry are appended to the CSV file
SaveData ==
  /\ ~Closing
  /\ Exports < MaxExports
  /\ export_file' =
       IF data = <<>> THEN export_file
       ELSE export_file \o <<StampRow, HeaderRow>> \o [i \in 1..Len(data) |-> ExportRow(data[i])]
  /\ UNCHANGED <<pure, connection_type, serial_port, tcp_socket, status, data, sample_counter,
                 device_name, presets_combo, tree, tree_serial, file, thr, received, edits,
                 base, saveFailed>>

(***************************************************************************)
(* The reader threads: read_serial and read_tcp, with process_data and     *)
(* save_temp_data called from them.  A thread's step is one statement      *)
(* that touches shared state; the buffer is local and is kept as the lines *)
(* it has completed (the buffer itself is modelled under SpecChunk).       *)
(***************************************************************************)
\* the thread's loop ends: break, or the while condition is false
Ended(t) == [thr EXCEPT ![t] = Idle]

\* the while condition: 'self.serial_port and self.serial_port.is_open' for
\* read_serial, 'self.tcp_socket' for read_tcp
LoopCondition(kind) ==
  IF kind = "Serial" THEN serial_port = "open" ELSE tcp_socket # "None"

RdCheck(t) ==
  /\ thr[t].pc = "check"
  /\ thr' = IF LoopCondition(thr[t].kind)
              THEN [thr EXCEPT ![t].pc = "poll"]
              ELSE Ended(t)
  /\ UNCHANGED <<pure, export_file, connection_type, serial_port, tcp_socket, status, data, sample_counter,
                 device_name, presets_combo, tree, tree_serial, file, received, edits, base,
                 saveFailed>>

\* a mutant of RdPollNone: the loop opens the transport again by itself
RdPollNoneReopens(t) ==
  /\ thr[t].pc = "poll"
  /\ Handle(thr[t].kind) = "None"
  /\ thr' = [thr EXCEPT ![t].pc = "check"]
  /\ IF thr[t].kind = "Serial"
       THEN serial_port' = "open" /\ UNCHANGED tcp_socket
       ELSE tcp_socket' = "open" /\ UNCHANGED serial_port
  /\ UNCHANGED <<pure, export_file, connection_type, status, data, sample_counter,
                 device_name, presets_combo, tree, tree_serial, file, received, edits, base,
                 saveFailed>>

\* in_waiting / read / recv on a handle that is None: AttributeError, caught by
\* 'except Exception', printed, break
RdPollNone(t) ==
  /\ thr[t].pc = "poll"
  /\ Handle(thr[t].kind) = "None"
  /\ thr' = Ended(t)
  /\ UNCHANGED <<pure, export_file, connection_type, serial_port, tcp_socket, status, data, sample_counter,
                 device_name, presets_combo, tree, tree_serial, file, received, edits, base,
                 saveFailed>>

\* in_waiting / read / recv raising SerialException or socket.error: the handle was
\* closed under the thread, or the transport failed (unplugged, reset, timeout)
RdPollError(t) ==
  /\ thr[t].pc = "poll"
  /\ Handle(thr[t].kind) # "None"
  /\ thr' = [thr EXCEPT ![t].pc = "lost"]
  /\ UNCHANGED <<pure, export_file, connection_type, serial_port, tcp_socket, status, data, sample_counter,
                 device_name, presets_combo, tree, tree_serial, file, received, edits, base,
                 saveFailed>>

\* recv returning b'': 'if not data: break'
RdPollEof(t) ==
  /\ thr[t].pc = "poll"
  /\ thr[t].kind = "Ethernet"
  /\ tcp_socket = "open"
  /\ thr' = Ended(t)
  /\ UNCHANGED <<pure, export_file, connection_type, serial_port, tcp_socket, status, data, sample_counter,
                 device_name, presets_combo, tree, tree_serial, file, received, edits, base,
                 saveFailed>>

\* a read that returns (possibly no bytes): the buffer now holds the complete lines ch
RdPollData(t, ch, cap) ==
  /\ thr[t].pc = "poll"
  /\ Handle(thr[t].kind) = "open"
  /\ received + ReadingsIn(ch) <= cap
  /\ received' = received + ReadingsIn(ch)
  /\ thr' = [thr EXCEPT ![t].pending = ch,
                        ![t].uid = IF ReadingsIn(ch) > 0 THEN received' ELSE 0,
                        ![t].pc = IF ch = <<>> THEN "check" ELSE "proc"]
  /\ UNCHANGED <<pure, export_file, connection_type, serial_port, tcp_socket, status, data, sample_counter,
                 device_name, presets_combo, tree, tree_serial, file, edits, base, saveFailed>>

\* the except clause of a SerialException / socket.error: update_status, break
RdLost(t) ==
  /\ thr[t].pc = "lost"
  /\ status' = ErrorShown
  /\ thr' = Ended(t)
  /\ UNCHANGED <<pure, export_file, connection_type, serial_port, tcp_socket, data, sample_counter,
                 device_name, presets_combo, tree, tree_serial, file, received, edits, base,
                 saveFailed>>

\* a mutant of PdStart: a line without a reading ends the read loop
PdStartAborts(t) ==
  /\ thr[t].pc = "proc"
  /\ LET rd == Extract(Head(thr[t].pending))
     IN  thr' = IF rd.ok
                  THEN [thr EXCEPT ![t].pending = Tail(@), ![t].rd = rd,
                                   ![t].sname = sample_counter, ![t].pc = "inc"]
                  ELSE Ended(t)
  /\ UNCHANGED <<pure, export_file, connection_type, serial_port, tcp_socket, status, data,
                 sample_counter, device_name, presets_combo, tree, tree_serial, file, received,
                 edits, base, saveFailed>>

\* a mutant of PdStart: the sample id is taken before the line is searched
PdStartCounts(t) ==
  /\ thr[t].pc = "proc"
  /\ sample_counter' = sample_counter + 1
  /\ LET rd == Extract(Head(thr[t].pending))
     IN  thr' = IF rd.ok
                  THEN [thr EXCEPT ![t].pending = Tail(@), ![t].rd = rd,
                                   ![t].sname = sample_counter, ![t].pc = "ins"]
                  ELSE [thr EXCEPT ![t].pending = Tail(@), ![t].pc = "lsave"]
  /\ UNCHANGED <<pure, export_file, connection_type, serial_port, tcp_socket, status, data,
                 device_name, presets_combo, tree, tree_serial, file, received, edits, base,
                 saveFailed>>

\* process_data, lines 396-405: the next line of the buffer is split off and parsed;
\* without a reading process_data returns, with one the sample name is read off
\* sample_counter
PdStart(t) ==
  /\ thr[t].pc = "proc"
  /\ LET rd == Extract(Head(thr[t].pending))
     IN  thr' = IF rd.ok
                  THEN [thr EXCEPT ![t].pending = Tail(@), ![t].rd = rd,
                                   ![t].sname = sample_counter, ![t].pc = "inc"]
                  ELSE [thr EXCEPT ![t].pending = Tail(@), ![t].pc = "lsave"]
  /\ UNCHANGED <<pure, export_file, connection_type, serial_port, tcp_socket, status, data, sample_counter,
                 device_name, presets_combo, tree, tree_serial, file, received, edits, base,
                 saveFailed>>

\* process_data, line 406: self.sample_counter += 1
PdInc(t) ==
  /\ thr[t].pc = "inc"
  /\ sample_counter' = sample_counter + 1
  /\ thr' = [thr EXCEPT ![t].pc = "ins"]
  /\ UNCHANGED <<pure, export_file, connection_type, serial_port, tcp_socket, status, data, device_name,
                 presets_combo, tree, tree_serial, file, received, edits, base, saveFailed>>

\* a mutant of DeviceLabel: the last known label goes before the selected preset
DeviceLabelLastFirst ==
  IF device_name # "" THEN device_name
  ELSE IF presets_combo # "" THEN presets_combo
  ELSE "Unknown"

\* presets_combo.get() or device_name.get() or "Unknown"
DeviceLabel ==
  IF presets_combo # "" THEN presets_combo
  ELSE IF device_name # "" THEN device_name
  ELSE "Unknown"

\* process_data, lines 407-410: the device label is chosen and stored, and the row is
\* inserted in the table, which gives it the next item id
PdInsert(t) ==
  /\ thr[t].pc = "ins"
  /\ device_name' = DeviceLabel
  /\ tree_serial' = tree_serial + 1
  /\ tree' = Append(tree, [iid |-> tree_serial', uid |-> thr[t].uid])
  /\ thr' = [thr EXCEPT ![t].device = DeviceLabel, ![t].iid = tree_serial',
                        ![t].pc = "app"]
  /\ UNCHANGED <<pure, export_file, connection_type, serial_port, tcp_socket, status, data, sample_counter,
                 presets_combo, file, received, edits, base, saveFailed>>

\* the dict process_data appends
Measurement(t) ==
  [sample_name |-> SampleName(thr[t].sname), weight |-> thr[t].rd.weight,
   unit |-> thr[t].rd.unit, device |-> thr[t].device, comments |-> Typed(""),
   iid |-> thr[t].iid, uid |-> thr[t].uid]

\* process_data, lines 411-420: self.data.append({...})
PdAppend(t) ==
  /\ thr[t].pc = "app"
  /\ data' = Append(data, Measurement(t))
  /\ thr' = [thr EXCEPT ![t].pc = "psave", ![t].rd = NoReading, ![t].sname = 0,
                        ![t].device = "", ![t].iid = 0, ![t].uid = 0]
  /\ UNCHANGED <<pure, export_file, connection_type, serial_port, tcp_socket, status, sample_counter,
                 device_name, presets_combo, tree, tree_serial, file, received, edits, base,
                 saveFailed>>

\* where a thread goes on after a save_temp_data: process_data's save (line 421) is
\* followed by the loop's (line 366 / 386), the loop's by the next line or the sleep
AfterSave(t) ==
  IF thr[t].pc \in {"psave", "psavew"} THEN "lsave"
  ELSE IF thr[t].pending # <<>> THEN "proc" ELSE "check"

\* save_temp_data, open(TEMP_FILE, "w"): the file is truncated
SaveOpen(t) ==
  /\ thr[t].pc \in {"psave", "lsave"}
  /\ file' = TruncatedFile
  /\ thr' = [thr EXCEPT ![t].pc = IF thr[t].pc = "psave" THEN "psavew" ELSE "lsavew"]
  /\ UNCHANGED <<pure, export_file, connection_type, serial_port, tcp_socket, status, data, sample_counter,
                 device_name, presets_combo, tree, tree_serial, received, edits, base, saveFailed>>

\* a mutant of SaveOpenFails: the failure ends the read loop
SaveOpenFailsFatal(t) ==
  /\ thr[t].pc \in {"psave", "lsave"}
  /\ saveFailed' = TRUE
  /\ thr' = Ended(t)
  /\ UNCHANGED <<pure, export_file, connection_type, serial_port, tcp_socket, status, data, sample_counter,
                 device_name, presets_combo, tree, tree_serial, file, received, edits, base>>

\* save_temp_data, open raising: the failure is printed and the thread goes on
SaveOpenFails(t) ==
  /\ thr[t].pc \in {"psave", "lsave"}
  /\ saveFailed' = TRUE
  /\ thr' = [thr EXCEPT ![t].pc = AfterSave(t)]
  /\ UNCHANGED <<pure, export_file, connection_type, serial_port, tcp_socket, status, data, sample_counter,
                 device_name, presets_combo, tree, tree_serial, file, received, edits, base>>

\* save_temp_data, json.dump or the close raising (the disk is full): the file stays
\* as far as it was written, the failure is printed and the thread goes on
SaveWriteFails(t) ==
  /\ thr[t].pc \in {"psavew", "lsavew"}
  /\ saveFailed' = TRUE
  /\ thr' = [thr EXCEPT ![t].pc = AfterSave(t)]
  /\ UNCHANGED <<pure, export_file, connection_type, serial_port, tcp_socket, status, data, sample_counter,
                 device_name, presets_combo, tree, tree_serial, file, received, edits, base>>

\* save_temp_data, json.dump and the close of the file
SaveWrite(t) ==
  /\ thr[t].pc \in {"psavew", "lsavew"}
  /\ file' = Snapshot
  /\ thr' = [thr EXCEPT ![t].pc = AfterSave(t)]
  /\ UNCHANGED <<pure, export_file, connection_type, serial_port, tcp_socket, status, data, sample_counter,
                 device_name, presets_combo, tree, tree_serial, received, edits, base, saveFailed>>

(***************************************************************************)
(* The process ends at any instant and a new one is started: __init__ and  *)
(* its load_temp_data                                                      *)
(***************************************************************************)
\* json.load of TEMP_FILE returns a dict with the three keys: a truncated file
\* raises, and so does temp.get on a value that is not a dict
Loadable(f) == f.st = "ok"

\* json.load of TEMP_FILE returns: the file holds valid JSON, a dict ("ok") or
\* another value ("nodict")
Parses(f) == f.st \in {"ok", "nodict"}

\* the sample_name of a record of a checkpoint that has no "sample_name" key
MissingField == [text |-> "", n |-> 0 - 1]

\* refresh_table on an empty table: one row per ledger entry, in order, each given
\* the table's next item id; row["sample_name"] of a record without that key
\* raises KeyError and the loop stops there
RefreshedTree(d) ==
  LET bad == {i \in 1..Len(d) : d[i].sample_name = MissingField}
      n   == IF bad = {} THEN Len(d)
             ELSE (CHOOSE a \in bad : \A b \in bad : a <= b) - 1
  IN  [i \in 1..n |-> [iid |-> i, uid |-> d[i].uid]]

\* a mutant of Restart: a restore removes the checkpoint it has read
RestartConsumes(restore) ==
  /\ connection_type' = "Serial"
  /\ serial_port' = "None"
  /\ tcp_socket' = "None"
  /\ status' = NotConnected
  /\ presets_combo' = ""
  /\ thr' = [t \in Threads |-> Idle]
  /\ saveFailed' = FALSE
  /\ UNCHANGED <<pure, export_file, received, edits>>
  /\ IF Loadable(file) /\ restore
       THEN /\ data' = LoadedData(file.data)
            /\ sample_counter' = file.sample_counter
            /\ device_name' = file.device_name
            /\ tree' = RefreshedTree(file.data)
            /\ tree_serial' = Len(RefreshedTree(file.data))
            /\ base' = Len(file.data)
            /\ file' = NoFile
       ELSE /\ data' = <<>>
            /\ sample_counter' = 1
            /\ device_name' = ""
            /\ tree' = <<>>
            /\ tree_serial' = 0
            /\ base' = 0
            /\ file' = IF Parses(file) /\ ~restore THEN NoFile ELSE file

\* __init__ and load_temp_data in a new process; restore is the operator's answer to
\* 'Restore previous unsaved session?', asked only when json.load succeeded
Restart(restore) ==
  /\ connection_type' = "Serial"
  /\ serial_port' = "None"
  /\ tcp_socket' = "None"
  /\ status' = NotConnected
  /\ presets_combo' = ""
  /\ thr' = [t \in Threads |-> Idle]
  /\ saveFailed' = FALSE
  /\ UNCHANGED <<pure, export_file, received, edits>>
  /\ IF Loadable(file) /\ restore
       THEN /\ data' = LoadedData(file.data)
            /\ sample_counter' = file.sample_counter
            /\ device_name' = file.device_name
            /\ tree' = RefreshedTree(file.data)
            /\ tree_serial' = Len(RefreshedTree(file.data))
            /\ base' = Len(file.data)
            /\ UNCHANGED file
       ELSE /\ data' = <<>>
            /\ sample_counter' = 1
            /\ device_name' = ""
            /\ tree' = <<>>
            /\ tree_serial' = 0
            /\ base' = 0
            /\ file' = IF Parses(file) /\ ~restore THEN NoFile ELSE file

\* one step of the application, with readers started in the slots T and at most
\* cap reading lines sent
Step(T, cap) ==
  \/ ToggleConnType
  \/ ConnectOpened(T)
  \/ ConnectFailed
  \/ DisconnectClose
  \/ DisconnectFinish
  \/ ResetData
  \/ ResetDeclined
  \/ \E r \in 1..cap, col \in {0, 4} : SaveEdit(r, col, TRUE)
  \/ \E t \in T :
       \/ RdCheck(t)
       \/ RdPollNone(t)
       \/ RdPollError(t)
       \/ RdPollEof(t)
       \/ \E ch \in Chunks : RdPollData(t, ch, cap)
       \/ RdLost(t)
       \/ PdStart(t)
       \/ PdInc(t)
       \/ PdInsert(t)
       \/ PdAppend(t)
       \/ SaveOpen(t)
       \/ SaveWrite(t)
  \/ \E restore \in BOOLEAN : Restart(restore)

Next == Step(OneReader, MaxReadings)

Spec == Init /\ [][Next]_vars

NextTwo == Step(Threads, MaxReadingsTwo)

SpecTwo == Init /\ [][NextTwo]_vars

(***************************************************************************)
(* SpecExtract: process_data's parsing applied to one line                 *)
(***************************************************************************)
\* all sequences over S of length at most n
BoundedSeq(S, n) == UNION {[1..k -> S] : k \in 0..n}

\* the longest line drawn from LineChars
MaxLineLen == 4

LineChars == {"0", "1", "+", "-", ".", ",", "g", "k", "G"}

\* "-1.200kg", "+012.345 g ST", "ERROR", "5 g", "1.500 G", "1.500 KG", "1.500 g"
KgLine == <<"-", "1", ".", "2", "0", "0", "k", "g">>
GramsLine == <<"+", "0", "1", "2", ".", "3", "4", "5", " ", "g", " ", "S", "T">>
ErrorLine == <<"E", "R", "R", "O", "R">>
IntegerLine == <<"5", " ", "g">>
UpperGLine == <<"1", ".", "5", "0", "0", " ", "G">>
UpperKgLine == <<"1", ".", "5", "0", "0", " ", "K", "G">>
LowerGLine == <<"1", ".", "5", "0", "0", " ", "g">>

\* "1,234.5 g"
CommaLine == <<"1", ",", "2", "3", "4", ".", "5", " ", "g">>

ExampleLines ==
  {KgLine, GramsLine, ErrorLine, IntegerLine, UpperGLine, UpperKgLine, LowerGLine,
   CommaLine}

InitExtract ==
  /\ InitApp
  /\ xline \in BoundedSeq(LineChars, MaxLineLen) \cup ExampleLines
  /\ xdone = FALSE
  /\ xres = NoReading
  /\ cstream = <<>>
  /\ cpos = 0
  /\ cbuf = <<>>
  /\ clines = <<>>
  /\ clast = 0

\* process_data(xline), lines 397-404
XProcess ==
  /\ ~xdone
  /\ xdone' = TRUE
  /\ xres' = Extract(xline)
  /\ UNCHANGED <<app, xline, cstream, cpos, cbuf, clines, clast>>

NextExtract == XProcess

SpecExtract == InitExtract /\ [][NextExtract]_vars

(***************************************************************************)
(* SpecChunk: the body of the read loops, lines 362-366 and 382-386, on a  *)
(* byte stream that arrives in reads of any sizes                          *)
(***************************************************************************)
\* the longest stream drawn from StreamBytes
MaxStreamLen == 4

StreamBytes == {"5", ".", " ", CR, LF, HIGHBYTE}

\* "+5.000 g\r\n"
SplitStream == <<"+", "5", ".", "0", "0", "0", " ", "g", CR, LF>>

\* raw.decode('ascii', errors='replace')
Decode(raw) == [i \in 1..Len(raw) |-> IF raw[i] = HIGHBYTE THEN REPL ELSE raw[i]]

\* the index of the first '\r\n' in buf, or 0: '\r\n' in buffer
FindCRLF(buf) ==
  LET hits == {i \in 1..(Len(buf) - 1) : buf[i] = CR /\ buf[i + 1] = LF}
  IN  IF hits = {} THEN 0 ELSE CHOOSE a \in hits : \A b \in hits : a <= b

\* str.strip()
RECURSIVE Strip(_)
Strip(s) ==
  IF s = <<>> THEN s
  ELSE IF IsSpace(Head(s)) THEN Strip(Tail(s))
  ELSE IF IsSpace(s[Len(s)]) THEN Strip(SubSeq(s, 1, Len(s) - 1))
  ELSE s

\* while '\r\n' in buffer: line, buffer = buffer.split('\r\n', 1);
\* process_data(line.strip())
RECURSIVE SplitLoop(_, _)
SplitLoop(buf, out) ==
  LET i == FindCRLF(buf)
  IN  IF i = 0 THEN [lines |-> out, buffer |-> buf]
      ELSE SplitLoop(SubSeq(buf, i + 2, Len(buf)), Append(out, Strip(SubSeq(buf, 1, i - 1))))

\* a mutant of LoopBody: the buffer does not carry over from the read before
LoopBodyNoCarry(buffer, raw) == SplitLoop(Decode(raw), <<>>)

\* buffer += raw.decode(...), then the while loop: the lines handed to process_data
\* and the buffer left
LoopBody(buffer, raw) == SplitLoop(buffer \o Decode(raw), <<>>)

\* the measurements process_data appends for the lines it is handed
Readings(lines) == SelectSeq([i \in 1..Len(lines) |-> Extract(lines[i])], LAMBDA r : r.ok)

InitChunk ==
  /\ InitApp
  /\ xline = <<>>
  /\ xdone = FALSE
  /\ xres = NoReading
  /\ cstream \in BoundedSeq(StreamBytes, MaxStreamLen) \cup {SplitStream}
  /\ cpos = 0
  /\ cbuf = <<>>
  /\ clines = <<>>
  /\ clast = 0

\* one read returns the next n bytes of the stream
ReadChunk(n) ==
  /\ cpos + n <= Len(cstream)
  /\ LET r == LoopBody(cbuf, SubSeq(cstream, cpos + 1, cpos + n))
     IN  /\ cbuf' = r.buffer
         /\ clines' = clines \o r.lines
  /\ cpos' = cpos + n
  /\ clast' = cpos
  /\ UNCHANGED <<app, xline, xdone, xres, cstream>>

NextChunk == \E n \in 1..Len(cstream) : ReadChunk(n)

SpecChunk == InitChunk /\ [][NextChunk]_vars

(***************************************************************************)
(* Properties of the read loops' framing (SpecChunk)                       *)
(***************************************************************************)
\* the number of CR LF pairs in the text
CountCRLF(text) == Cardinality({i \in 1..(Len(text) - 1) : text[i] = CR /\ text[i + 1] = LF})

\* the bytes read so far
Delivered == SubSeq(cstream, 1, cpos)

\* C3: however the stream is split into reads, the lines handed to process_data
\* and the text left in the buffer are those of the same bytes arriving in one
\* read; there is one line per CR LF received, the buffer holds no CR LF, so
\* text not yet terminated yields no measurement; the measurements are the same
\* in the same order; "+5.000 g\r\n" yields exactly one measurement of weight
\* 5.0 once complete and none before.
C3_ChunkingInvariance ==
  LET once == LoopBody(<<>>, Delivered)
  IN  /\ clines = once.lines
      /\ cbuf = once.buffer
      /\ Readings(clines) = Readings(once.lines)
      /\ Len(clines) = CountCRLF(Decode(Delivered))
      /\ FindCRLF(cbuf) = 0
      /\ cstream = SplitStream =>
           Readings(clines) =
             IF cpos = Len(cstream)
             THEN <<[ok |-> TRUE, weight |-> [m |-> 5, e |-> 0], unit |-> "g"]>>
             ELSE <<>>

\* C3 witness: "+5.000 g\r\n" has arrived as "+5.0" then "00 g\r\n" and one
\* measurement came out of it.
C3_Witness ==
  /\ cstream = SplitStream
  /\ clast = 4
  /\ cpos = Len(cstream)
  /\ Len(Readings(clines)) = 1
  /\ cbuf = <<>>

(***************************************************************************)
(* Properties of the extraction (SpecExtract)                              *)
(***************************************************************************)
\* u is: optional sign, one or more digits, '.', one or more digits
IsDecimal(u) ==
  LET b == IF u # <<>> /\ u[1] \in {"+", "-"} THEN Tail(u) ELSE u
  IN  \E d \in 2..(Len(b) - 1) :
        /\ b[d] = "."
        /\ \A i \in 1..Len(b) : i # d => IsDigit(b[i])

\* the spans <<i, j>> of s that are decimals
DecimalSpans(s) ==
  {sp \in (1..Len(s)) \X (1..Len(s)) : sp[1] <= sp[2] /\ IsDecimal(SubSeq(s, sp[1], sp[2]))}

\* the decimal span that starts first, and of those the longest
FirstSpan(s) ==
  CHOOSE sp \in DecimalSpans(s) :
    \A o \in DecimalSpans(s) : sp[1] < o[1] \/ (sp[1] = o[1] /\ sp[2] >= o[2])

\* C4: the line "-1.200kg" is recorded with weight -1.2 and the kilograms unit.
C4_KgLineIsKilograms ==
  (xdone /\ xline = KgLine) =>
    (xres.ok /\ xres.weight = [m |-> -12, e |-> 1] /\ xres.unit = "kg")

\* C5: the weight recorded for a line is the value of the first decimal
\* substring (optional sign, digits, '.', digits) of the sanitized line, and a
\* line whose sanitized text has no such substring yields no measurement;
\* "+012.345 g ST" yields 12.345 grams, "5 g" and "g" yield nothing.
C5_FirstDecimalSubstring ==
  xdone =>
    LET clean == Sanitize(xline)
    IN  /\ IF DecimalSpans(clean) = {}
           THEN ~xres.ok
           ELSE /\ xres.ok
                /\ xres.weight = ToFloat(SubSeq(clean, FirstSpan(clean)[1], FirstSpan(clean)[2]))
        /\ xline = GramsLine =>
             xres = [ok |-> TRUE, weight |-> [m |-> 12345, e |-> 3], unit |-> "g"]
        /\ xline \in {IntegerLine, <<"g">>, <<>>} => ~xres.ok

\* C5 witness: "+012.345 g ST" has been processed and gave a measurement.
C5_Witness == xdone /\ xline = GramsLine /\ xres.ok /\ xres.weight = [m |-> 12345, e |-> 3]

(***************************************************************************)
(* Properties of a session (Spec, SpecTwo)                                 *)
(***************************************************************************)
\* C1: the default names of the measurements of the ledger are consecutive: a
\* measurement accepted right after the one named Sample_k is named
\* Sample_(k+1), with no gap and no repeat, whatever the interleaving of the
\* reader's steps with a reset.
C1_ConsecutiveSampleIds ==
  \A k \in 1..(Len(data) - 1) :
    (data[k].sample_name.text = "Sample_" /\ data[k + 1].sample_name.text = "Sample_")
      => data[k + 1].sample_name.n = data[k].sample_name.n + 1

\* what load_temp_data would find on disk now
Durable == IF Loadable(file) THEN file.data ELSE <<>>

\* C2: when no save has failed, every measurement of the ledger but the most
\* recent one is in what the checkpoint on disk loads to, at every instant the
\* process could end, the middle of a checkpoint write included.
C2_AtMostOneReadingBehind ==
  ~saveFailed =>
    \A i \in 1..(Len(data) - 1) :
      \E j \in 1..Len(Durable) : Durable[j].uid = data[i].uid

\* the handle of thread t's transport is None in the next state
Released(t) ==
  IF thr[t].kind = "Serial" THEN serial_port' = "None" ELSE tcp_socket' = "None"

\* C6: the step that ends a read loop on end-of-stream or on a read error
\* leaves the loop's transport handle released (None), so that the next connect
\* request opens a transport.
C6_TransportReleasedAfterFault ==
  [][\A t \in Threads : (RdPollEof(t) \/ RdLost(t)) => Released(t)]_vars

\* C7: the step that ends a read loop on end-of-stream or on a read error
\* leaves an error indication as the status.
C7_ErrorShownAfterLoopEnds ==
  [][\A t \in Threads : (RdPollEof(t) \/ RdLost(t)) => status' = ErrorShown]_vars

\* a step of the reader thread t
ReaderStep(t) ==
  \/ RdCheck(t) \/ RdPollNone(t) \/ RdPollError(t) \/ RdPollEof(t)
  \/ \E ch \in Chunks : RdPollData(t, ch, MaxReadings)
  \/ RdLost(t)
  \/ PdStart(t) \/ PdInc(t) \/ PdInsert(t) \/ PdAppend(t)
  \/ SaveOpen(t) \/ SaveWrite(t)

\* C8: once a disconnect has left the status at "Not Connected", no step of a
\* reader thread, wherever the disconnect found it, replaces that status.
C8_DisconnectStatusStays ==
  [][\A t \in Threads :
       (status = NotConnected /\ ReaderStep(t)) => status' = NotConnected]_vars

\* C9: at most one read-loop thread is running.
C9_AtMostOneReader == Cardinality(Running) <= 1

\* the ledger after the one field of the measurement with key uid is set to value
EditedByKey(uid, col, value) ==
  [i \in 1..Len(data) |->
     IF data[i].uid # uid THEN data[i]
     ELSE IF col = 0 THEN [data[i] EXCEPT !.sample_name = value]
     ELSE [data[i] EXCEPT !.comments = value]]

\* C10: an edit of the name or the comment of the row at position r changes that
\* field of the measurement the row displays and nothing else, and leaves the
\* ledger alone when the ledger has no such measurement.
C10_EditChangesDisplayedMeasurement ==
  [][\A r \in 1..MaxReadings, col \in {0, 4} :
       SaveEdit(r, col, TRUE) => data' = EditedByKey(tree[r].uid, col, Typed(EditText))]_vars

(***************************************************************************)
(* SpecCheckpoint: save_temp_data, load_temp_data and clear_temp_data on   *)
(* ledgers and checkpoint files of several contents                        *)
(***************************************************************************)
\* the longest ledger, in memory or in a checkpoint file, drawn at the start
MaxLedger == 2

\* 5.0, -1.2, 12.345
LedgerWeights == {[m |-> 5, e |-> 0], [m |-> 0 - 12, e |-> 1], [m |-> 12345, e |-> 3]}

LedgerNames == {SampleName(1), Typed(EditText)}

\* the ledgers of k measurements with the names ns, as process_data builds them
LedgersOf(k, names) ==
  {[i \in 1..k |->
      [sample_name |-> ns[i], weight |-> ws[i], unit |-> "g", device |-> "Unknown",
       comments |-> Typed(""), iid |-> i, uid |-> i]] :
     ws \in [1..k -> LedgerWeights], ns \in [1..k -> names]}

Ledgers == UNION {LedgersOf(k, LedgerNames) : k \in 0..MaxLedger}

\* a file whose JSON value is not a dict
NoDictFile == [st |-> "nodict", data |-> <<>>, sample_counter |-> 0, device_name |-> ""]

\* the checkpoint files a start can find: none, a truncated one, one that is not a
\* dict, and dicts with the three keys whose records may lack "sample_name"
StartupFiles ==
  {NoFile, TruncatedFile, NoDictFile}
  \cup {[st |-> "ok", data |-> EncodedData(d), sample_counter |-> Len(d) + 1,
         device_name |-> IF d = <<>> THEN "" ELSE "Unknown"] :
          d \in UNION {LedgersOf(k, LedgerNames \cup {MissingField}) : k \in 0..MaxLedger}}

\* either the process has just been started and finds a file, or a session holds a
\* ledger and its reader is about to write the checkpoint
InitCheckpoint ==
  /\ InitPure
  /\ export_file = <<>>
  /\ connection_type = "Serial"
  /\ tcp_socket = "None"
  /\ presets_combo = ""
  /\ received = 0
  /\ edits = 0
  /\ base = 0
  /\ saveFailed = FALSE
  /\ \/ /\ file \in StartupFiles
        /\ data = <<>>
        /\ sample_counter = 1
        /\ device_name = ""
        /\ serial_port = "None"
        /\ status = NotConnected
        /\ thr = [t \in Threads |-> Idle]
     \/ /\ file = NoFile
        /\ data \in Ledgers
        /\ sample_counter = Len(data) + 1
        /\ device_name = (IF data = <<>> THEN "" ELSE "Unknown")
        /\ serial_port = "open"
        /\ status = Connected
        /\ thr = [t \in Threads |-> IF t = 1 THEN [Started("Serial") EXCEPT !.pc = "lsave"]
                                             ELSE Idle]
  /\ tree = RefreshedTree(data)
  /\ tree_serial = Len(data)

NextCheckpoint ==
  \/ \E t \in OneReader : SaveOpen(t) \/ SaveWrite(t)
  \/ \E restore \in BOOLEAN : Restart(restore)
  \/ ResetData

SpecCheckpoint == InitCheckpoint /\ [][NextCheckpoint]_vars

\* C11: a load with the restore accepted, of a file that holds what
\* save_temp_data writes in the current state, gives back the same ledger (same
\* measurements, order and field values), the same sample_counter and the same
\* device label.
C11_SaveLoadRoundTrip ==
  [][(Restart(TRUE) /\ file = Snapshot) =>
       (data' = data /\ sample_counter' = sample_counter /\ device_name' = device_name)]_vars

\* C11 witness: a ledger holding a negative weight with a fraction has been saved
\* and restored.
C11_Witness ==
  /\ file = Snapshot
  /\ base = Len(data)
  /\ \E i \in 1..Len(data) : data[i].weight = [m |-> 0 - 12, e |-> 1]
  /\ thr = [t \in Threads |-> Idle]

\* the measurement with the key uid is in what the checkpoint on disk loads to
InCheckpoint(uid) == \E j \in 1..Len(Durable) : Durable[j].uid = uid

\* C12: at the steps in which a read loop meets a read error or end-of-stream
\* and ends, the ledger is left as it is and every measurement of the ledger is
\* in the checkpoint on disk.
C12_LedgerCheckpointedAtFault ==
  [][\A t \in Threads :
       (RdPollError(t) \/ RdPollEof(t) \/ RdLost(t)) =>
         (data' = data /\ \A i \in 1..Len(data) : InCheckpoint(data[i].uid))]_vars

\* C13: a checkpoint file exists only once a reading has been received: lines
\* that yield no reading create none.
C13_NoCheckpointWithoutReading == received = 0 => file.st = "absent"

\* C14: process_data on a line without a reading returns with the ledger, the
\* sample_counter, the device label and the table as they were: no measurement
\* is added and no sample id consumed.
C14_NoReadingChangesNothing ==
  [][\A t \in Threads :
       (PdStart(t) /\ ~Extract(Head(thr[t].pending)).ok) =>
         (/\ thr'[t].pc = "lsave"
          /\ UNCHANGED <<data, sample_counter, device_name, tree>>)]_vars

\* C14 witness: the line "ERROR" has been processed in a session that has
\* received no reading; the ledger is empty and the counter is 1.
C14_Witness ==
  /\ received = 0
  /\ \E t \in Threads : thr[t].pc = "lsave" /\ thr[t].pending = <<>>
  /\ data = <<>>
  /\ sample_counter = 1
  /\ device_name = ""

\* C15: a connect request whose open fails shows the error, starts no reader
\* thread, keeps no transport handle (so the next request is a connect attempt
\* again) and leaves the ledger and the sample_counter unchanged.
C15_FailedOpenStaysDisconnected ==
  [][ConnectFailed =>
       (/\ status' = ErrorShown
        /\ (IF connection_type' = "Serial" THEN serial_port' ELSE tcp_socket') = "None"
        /\ thr' = thr
        /\ UNCHANGED <<serial_port, tcp_socket, data, sample_counter>>)]_vars

\* C15 witness: an Ethernet connect has failed in a session without readings: the
\* error is shown, no handle is held and no reader runs.
C15_Witness ==
  /\ connection_type = "Ethernet"
  /\ status = ErrorShown
  /\ tcp_socket = "None"
  /\ serial_port = "None"
  /\ Running = {}
  /\ received = 0

\* C16: no reset, edit or foreground checkpoint write happens while a reader is
\* between the steps of an append (name read off the counter, increment, table
\* insert, ledger append, checkpoint write).
C16_ForegroundExcludedDuringAppend ==
  [][(ResetData \/ \E r \in 1..MaxReadings, col \in {0, 4} : SaveEdit(r, col, TRUE)) =>
       \A t \in Threads : thr[t].pc \notin {"inc", "ins", "app", "psave", "psavew"}]_vars

\* C17: at a start that finds a readable checkpoint, restore sets ledger,
\* sample_counter and device label to the checkpoint's values and keeps the
\* file; discard removes the file and leaves an empty ledger and counter 1; and
\* removing the checkpoint when there is none changes nothing.
C17_RestoreOrDiscard ==
  [][/\ (Restart(TRUE) /\ Loadable(file)) =>
          (/\ data' = LoadedData(file.data)
           /\ sample_counter' = file.sample_counter
           /\ device_name' = file.device_name
           /\ file' = file)
     /\ (Restart(FALSE) /\ Loadable(file)) =>
          (file' = NoFile /\ data' = <<>> /\ sample_counter' = 1)
     /\ (ResetData /\ file = NoFile) => file' = NoFile]_vars

\* C17 witness: a checkpoint of two measurements has been restored and is still
\* on disk.
C17_Witness ==
  /\ Loadable(file)
  /\ Len(file.data) = 2
  /\ data = LoadedData(file.data)
  /\ base = 2
  /\ sample_counter = file.sample_counter
  /\ status = NotConnected

\* the checkpoint is invalid JSON, not a dict, or has a record without a field
Malformed(f) ==
  \/ f.st \in {"partial", "nodict"}
  \/ \E i \in 1..Len(f.data) : f.data[i].sample_name = MissingField

\* C18: a start that finds a malformed checkpoint leaves the state of a start
\* without a checkpoint: empty ledger and table, sample_counter 1, no device label.
C18_MalformedCheckpointStartsEmpty ==
  [][\A restore \in BOOLEAN :
       (Restart(restore) /\ Malformed(file)) =>
         (data' = <<>> /\ sample_counter' = 1 /\ device_name' = "" /\ tree' = <<>>)]_vars

(***************************************************************************)
(* SpecFail: a session with one reader whose checkpoint writes may fail    *)
(***************************************************************************)
NextFail ==
  \/ Step(OneReader, MaxReadings)
  \/ \E t \in OneReader : SaveOpenFails(t) \/ SaveWriteFails(t)

SpecFail == Init /\ [][NextFail]_vars

\* C19: a checkpoint write that fails leaves the ledger and the sample_counter
\* as they are and the read loop running at its next statement; and a write that
\* succeeds, a later one included, holds every measurement of the ledger.
C19_FailedSaveNotFatal ==
  [][\A t \in Threads :
       /\ (SaveOpenFails(t) \/ SaveWriteFails(t)) =>
            (/\ UNCHANGED <<data, sample_counter>>
             /\ thr'[t].pc = AfterSave(t)
             /\ thr'[t].pc \in {"lsave", "proc", "check"})
       /\ SaveWrite(t) => (Loadable(file') /\ LoadedData(file'.data) = data')]_vars

\* C19 witness: a write has failed, the loop went on, and the checkpoint holds the
\* two measurements of the ledger.
C19_Witness ==
  /\ saveFailed
  /\ Len(data) = 2
  /\ Loadable(file)
  /\ LoadedData(file.data) = data
  /\ \E t \in Threads : thr[t].pc = "check"

\* C20: the sanitized text of a line is the line's digits, '+', '-', '.', 'g'
\* and 'k' in their order and nothing else, so that "1,234.5 g" is read as 1234.5.
C20_SanitizeKeepsListedCharacters ==
  xdone =>
    /\ Sanitize(xline) = SelectSeq(xline, KeptNoRange)
    /\ xline = CommaLine => xres.weight = [m |-> 12345, e |-> 1]

(***************************************************************************)
(* SpecExport: a session with one reader, exports and presets              *)
(***************************************************************************)
NextExport ==
  \/ Step(OneReader, MaxReadings)
  \/ SaveData

SpecExport == Init /\ [][NextExport]_vars

\* the measurement rows a step has appended to the CSV file
NewRows ==
  SelectSeq(SubSeq(export_file', Len(export_file) + 1, Len(export_file')),
            LAMBDA r : r.kind = "row")

\* C21: an export writes one row per measurement of the ledger, in ledger order,
\* with the weight in the three-decimal form that the table shows.
C21_ExportThreeDecimals ==
  [][(SaveData /\ data # <<>>) =>
       (/\ Len(NewRows) = Len(data)
        /\ \A i \in 1..Len(data) :
             /\ NewRows[i].sample_name = data[i].sample_name
             /\ NewRows[i].weight = Fixed3(data[i].weight))]_vars

\* the measurements of a ledger, in order, by their keys
Keys(d) == [i \in 1..Len(d) |-> d[i].uid]

\* C22: the measurements of the ledger and their order change only in the step
\* of a reader that appends one measurement at the end, in a confirmed reset,
\* which removes them all, and at the start of a new process; every other step
\* (connect, disconnect, fault, line without reading, edit, export, declined
\* reset) leaves them as they are.
C22_LedgerMembershipFrame ==
  [][Keys(data') # Keys(data) =>
       \/ \E t \in Threads :
            PdAppend(t) /\ Keys(data') = Append(Keys(data), thr[t].uid)
       \/ ResetData /\ data' = <<>>
       \/ \E restore \in BOOLEAN : Restart(restore)]_vars

\* C22 witness: a session with two measurements has seen an edit, an export and
\* a fault, and the ledger still holds the two.
C22_Witness ==
  /\ Len(data) = 2
  /\ base = 0
  /\ edits = 1
  /\ Exports = 1
  /\ status = ErrorShown

(***************************************************************************)
(* SpecLive: connections and two read loops on a device that sends no      *)
(* reading, every running loop being scheduled again and again             *)
(***************************************************************************)
\* a step of the read loop t when the device sends no reading
LoopStep(t) ==
  \/ RdCheck(t) \/ RdPollNone(t) \/ RdPollError(t) \/ RdPollEof(t)
  \/ \E ch \in Chunks : RdPollData(t, ch, 0)
  \/ RdLost(t)
  \/ PdStart(t)
  \/ SaveOpen(t) \/ SaveWrite(t)

NextLive ==
  \/ ToggleConnType
  \/ ConnectOpened(Threads)
  \/ ConnectFailed
  \/ DisconnectClose
  \/ DisconnectFinish
  \/ \E t \in Threads : LoopStep(t)

\* a daemon thread that can run is run eventually
SpecLive == Init /\ [][NextLive]_vars /\ \A t \in Threads : WF_vars(LoopStep(t))

\* the foreground is inside a disconnect of the transport that the running loop t reads
DisconnectRequested(t) ==
  /\ thr[t].pc # "idle"
  /\ Handle(thr[t].kind) = "closed"

\* C23: a disconnect request is eventually followed by the exit of the read loop
\* that was running on that transport when it was issued, whatever comes after.
C23_DisconnectEndsLoop ==
  \A t \in Threads : DisconnectRequested(t) ~> (thr[t].pc = "idle")

\* C24: a transport handle becomes open only in the step that handles a connect
\* request whose open succeeds: no step of a read loop and no other handler
\* opens one, after a fault, an end-of-stream or a failed open included.
C24_OpenOnlyOnConnectRequest ==
  [][((serial_port' = "open" /\ serial_port # "open")
        \/ (tcp_socket' = "open" /\ tcp_socket # "open")) =>
       ConnectOpened(OneReader)]_vars

\* C24 witness: a read loop has ended on end-of-stream; its socket is still the
\* one the connect request opened and nothing was opened since.
C24_Witness ==
  /\ Running = {}
  /\ tcp_socket = "open"
  /\ serial_port = "None"
  /\ status = Connected

\* a step of process_data or of a save_temp_data of the reader thread t
LineStep(t) ==
  PdStart(t) \/ PdInc(t) \/ PdInsert(t) \/ PdAppend(t) \/ SaveOpen(t) \/ SaveWrite(t)

\* C25: no step of the handling of a line, with or without a reading, ends the
\* read loop or drops a line that waits in the buffer: the loop goes on to the
\* next line or to its next poll.
C25_LineNeverEndsLoop ==
  [][\A t \in Threads :
       LineStep(t) =>
         (/\ thr'[t].pc \notin {"idle", "lost"}
          /\ thr'[t].kind = thr[t].kind
          /\ \/ thr'[t].pending = thr[t].pending
             \/ PdStart(t) /\ thr'[t].pending = Tail(thr[t].pending))]_vars

\* C25 witness: a loop has handled a line, appended and saved its reading, and is
\* at its next poll.
C25_Witness ==
  /\ \E t \in Threads : thr[t].pc = "poll" /\ thr[t].pending = <<>>
  /\ Len(data) = 1
  /\ received = 1
  /\ Loadable(file)
  /\ Len(file.data) = 1

\* C26: the unit given to a line is the unit given to the same line in lower case.
C26_UnitCaseInsensitive ==
  (xdone /\ xres.ok) => xres.unit = Extract(Lower(xline)).unit

(***************************************************************************)
(* SpecPreset: a session with one reader in which presets are selected and *)
(* deleted                                                                 *)
(***************************************************************************)
NextPreset ==
  \/ Step(OneReader, MaxReadings)
  \/ ApplyPreset
  \/ ApplyPresetIncomplete
  \/ DeletePreset

SpecPreset == Init /\ [][NextPreset]_vars

\* C27: the label given to a new measurement is the selected preset's name if a
\* preset is selected, otherwise the last known label, otherwise "Unknown"; it
\* becomes the last known label and the measurement's device; and "Unknown" is
\* given only when no preset is selected and no other label is known.
C27_DeviceLabelFallback ==
  [][\A t \in Threads :
       /\ PdInsert(t) =>
            (/\ presets_combo # "" => thr'[t].device = presets_combo
             /\ (presets_combo = "" /\ device_name # "") => thr'[t].device = device_name
             /\ (presets_combo = "" /\ device_name = "") => thr'[t].device = "Unknown"
             /\ device_name' = thr'[t].device)
       /\ PdAppend(t) => data'[Len(data')].device = thr[t].device]_vars

\* C27 witness: a measurement carries the name of a preset that was selected and
\* then deleted, the label having been carried forward.
C27_Witness ==
  /\ presets_combo = ""
  /\ Len(data) = 1
  /\ data[1].device = PresetName
  /\ device_name = PresetName

\* C28: the iids stored in the ledger are pairwise distinct and the iid of each
\* measurement is the item id of the table row that displays it.
C28_LedgerKeysMatchRows ==
  /\ \A i, j \in 1..Len(data) : i # j => data[i].iid # data[j].iid
  /\ \A r \in 1..Len(tree) : \A i \in 1..Len(data) :
       data[i].uid = tree[r].uid => data[i].iid = tree[r].iid

\* C29: the serial port and the TCP socket are never both open.
C29_AtMostOneTransport == ~(serial_port = "open" /\ tcp_socket = "open")

\* C30: in a session that restored a checkpoint, the default name of every
\* measurement accepted since has a number above that of every restored
\* measurement.
C30_IdsContinueAfterRestore ==
  \A j \in 1..base : \A i \in (base + 1)..Len(data) :
    (data[i].sample_name.text = "Sample_" /\ data[j].sample_name.text = "Sample_")
      => data[i].sample_name.n > data[j].sample_name.n

=============================================================================
